---- MODULE Spec2Model ----
(***************************************************************************)
(* A model of specialeffects: the SpecialEffect builder (section scopes,   *)
(* add_* calls, device registries), the Section/Effect run protocol and    *)
(* the asyncio event loop that play() drives them on.                      *)
(*                                                                         *)
(* Python values are encoded as follows.  An optional value is a sequence: *)
(* None is <<>> and a present value x is <<x>>.  Objects live in heaps     *)
(* indexed by identity: secs (Section objects), lists (Python list         *)
(* objects, which two Sections may share), leaves (leaf Effect objects).   *)
(* A child reference is <<"S", id>> or <<"L", id>>; equality of references *)
(* is object identity, which is what `in` computes for these classes.      *)
(***************************************************************************)
EXTENDS Integers, Sequences, FiniteSets, TLC

None == <<>>
Some(x) == <<x>>

(* ------------------------------ bounds -------------------------------- *)
\* Builder calls explored by the free builder specification.
MaxOps == 6
\* Concurrent asyncio tasks alive at once (task slots).
MaxTasks == 6

\* Progress values given to interpolate_color: k / Den for k in 0..Den.
Den == 4
\* Durations given to the color generator: 1..MaxDuration hundredths of a
\* time unit.
MaxDuration == 30

(* ------------------------------ values -------------------------------- *)
Names == {"X"}
LightNames == {"lamp", "bad", "grp", "ghost"}
Devices == {"bulb", "broken"}

SecRef(s) == <<"S", s>>
LeafRef(e) == <<"L", e>>

VARIABLES
    lights,           \* SpecialEffect.lights: name -> optional device
    light_groups,     \* SpecialEffect.light_groups: name -> optional list of devices
    effects,          \* SpecialEffect.effects: the top-level list
    named_effects,    \* SpecialEffect.named_effects: name -> Section id, 0 when absent
    current_section,  \* SpecialEffect._current_section: Section id, 0 for None
    secs,             \* heap of Section objects
    lists,            \* heap of the list objects held in Section.effects
    leaves,           \* heap of leaf Effect objects
    scopes,           \* open `with section(...)` blocks, innermost last
    script,           \* builder calls the program has still to make
    phase,            \* "free" or "build", then "play", then "returned"
    hist,             \* bookkeeping of the builder calls made so far
    tasks,            \* the event loop's asyncio.Task objects, by slot
    ready,            \* the event loop's FIFO of tasks ready to step
    running,          \* the task whose step is executing, 0 when none
    result,           \* what play() gave: None until it ends, then <<exception or None>>
    obs,              \* what the leaf effects have done so far (see InitLoop)
    gen               \* a call of interpolate_color and a color generator (see NewGenerator)

rvars == <<tasks, ready, running, result, obs>>

(* ------------------------------ builder -------------------------------- *)
\* A builder call of the program under construction.
Op(op, name, parallel, repeat, kind, target, dev, members) ==
    [op |-> op, name |-> name, parallel |-> parallel, repeat |-> repeat,
     kind |-> kind, target |-> target, dev |-> dev, members |-> members,
     duration |-> 0, easing |-> "linear"]
Enter(name, parallel, repeat) == Op("section", name, parallel, repeat, "", "", "", <<>>)
Exit == Op("exit", None, None, None, "", "", "", <<>>)
\* An exception raised in the body of the innermost `with section(...)` block
\* leaves the block.
Abort == Op("abort", None, None, None, "", "", "", <<>>)
Add(kind, target) == Op("add", None, None, None, kind, target, "", <<>>)
AddTransition(target, duration, easing) ==
    [Add("light_color_transition", target) EXCEPT !.duration = duration, !.easing = easing]
\* add_custom(func, repeat=r): the keyword lands in CustomEffect.kwargs.
AddCustom(target, repeat) == [Add("custom", target) EXCEPT !.repeat = repeat]
AddLight(name, dev) == Op("add_light", None, None, None, "", name, dev, <<>>)
AddGroup(name, members) == Op("add_light_group", None, None, None, "", name, "", members)

\* Effect.__init__ and its subclasses: repeat defaults to 1 and no add_* call
\* passes another value; CustomEffect forces repeat = 1 and keeps a repeat
\* keyword of the caller in kwargs, for the callable.
NewLeaf(o) ==
    [kind |-> o.kind, target |-> o.target, repeat |-> Some(1), kwargs |-> o.repeat,
     duration |-> o.duration, easing |-> o.easing]

\* A free slot of the task table, and the event loop before asyncio.run.
NoTask ==
    [kind |-> "free", node |-> <<"L", 0>>, stack |-> <<>>, status |-> "free",
     parent |-> 0, ret |-> None, exc |-> None, started |-> FALSE, resumed |-> FALSE]
InitLoop ==
    /\ tasks = [t \in 1..MaxTasks |-> NoTask]
    /\ ready = <<>>
    /\ running = 0
    /\ result = None
    \* calls: the device operations invoked, <<leaf, device>>; raised: the
    \* exceptions leaf effects ended with, <<leaf, exception>>; completed: the
    \* leaf effects whose run() has returned; working: the tasks whose custom
    \* callable is executing in a worker thread; custom: for each finished
    \* CustomEffect.run, <<leaf, times it invoked the callable>>
    /\ obs = [calls |-> {}, raised |-> {}, completed |-> {}, working |-> {}, custom |-> {}]

\* Section.__init__
NewSection(list, parallel, repeat, name) ==
    [effects |-> list, parallel |-> parallel, repeat |-> repeat, name |-> name]

Last(q) == q[Len(q)]
Front(q) == SubSeq(q, 1, Len(q) - 1)
Range(q) == {q[i] : i \in 1..Len(q)}
IsSec(ref) == ref[1] = "S"

\* The Section of the innermost open `with` block, 0 when none is open.
Innermost == IF scopes = <<>> THEN 0 ELSE Last(scopes).new_section

\* The child list of a Section, or the top-level list for 0.
ChildList(s) == IF s = 0 THEN effects ELSE lists[secs[s].effects]

\* Which builder call comes next: any, in the free builder; the program's next
\* call, when a program is being built for play().
Allowed(o) ==
    \/ phase = "free" /\ hist.calls < MaxOps
    \/ phase = "build" /\ script # <<>> /\ o = Head(script)

Consume(o) ==
    /\ script' = IF phase = "free" THEN script ELSE Tail(script)
    /\ phase' = phase
    /\ UNCHANGED <<rvars, gen>>

\* SpecialEffect.section, up to the yield: reuse the registered Section's list
\* under a new Section object, or make a new one and register it if named.
section_enter(o) ==
    /\ o.op = "section"
    /\ Allowed(o)
    /\ LET reuse == o.name # None /\ named_effects[o.name[1]] # 0
           old == secs[named_effects[o.name[1]]]
           id == Len(secs) + 1
           new_section ==
               IF reuse
               THEN NewSection(old.effects,
                               IF o.parallel # None THEN o.parallel[1] ELSE old.parallel,
                               o.repeat, o.name)
               ELSE NewSection(Len(lists) + 1,
                               IF o.parallel # None THEN o.parallel[1] ELSE FALSE,
                               o.repeat, o.name)
       IN /\ secs' = Append(secs, new_section)
          /\ lists' = IF reuse THEN lists ELSE Append(lists, <<>>)
          /\ named_effects' = IF ~reuse /\ o.name # None
                              THEN [named_effects EXCEPT ![o.name[1]] = id]
                              ELSE named_effects
          /\ scopes' = Append(scopes, [new_section |-> id,
                                       previous_section |-> current_section])
          /\ current_section' = id
          /\ hist' = [hist EXCEPT !.calls = @ + 1,
                                  !.entered = Append(@, Innermost)]
    /\ Consume(o)
    /\ UNCHANGED <<lights, light_groups, effects, leaves>>

\* list.append(x) on the child list of Section s (the top-level list for 0).
ListAppend(s, x) ==
    IF s = 0
    THEN /\ effects' = Append(effects, x)
         /\ lists' = lists
    ELSE /\ lists' = [lists EXCEPT ![secs[s].effects] = Append(@, x)]
         /\ effects' = effects

\* (mutant) the exit forgets the enclosing scope and falls back to the top level
RestoredTargetTopLevel(sc) == 0
\* The target restored when a scope exits (line 122).
RestoredTarget(sc) == sc.previous_section

\* SpecialEffect.section, after the yield: restore the previous target and
\* link the Section into it unless `in` finds it there already.
section_exit(o) ==
    /\ o.op = "exit"
    /\ Allowed(o)
    /\ scopes # <<>>
    /\ LET sc == Last(scopes)
           new_section == sc.new_section
           previous_section == sc.previous_section
       IN /\ current_section' = RestoredTarget(sc)
          /\ IF previous_section # 0
             THEN IF SecRef(new_section) \notin Range(ChildList(previous_section))
                  THEN ListAppend(previous_section, SecRef(new_section))
                  ELSE UNCHANGED <<effects, lists>>
             ELSE IF SecRef(new_section) \notin Range(effects)
                  THEN ListAppend(0, SecRef(new_section))
                  ELSE UNCHANGED <<effects, lists>>
          /\ scopes' = Front(scopes)
          /\ hist' = [hist EXCEPT !.calls = @ + 1,
                                  !.order = Append(@, <<SecRef(new_section),
                                                        hist.entered[new_section]>>)]
    /\ Consume(o)
    /\ UNCHANGED <<lights, light_groups, named_effects, secs, leaves>>

\* SpecialEffect.section left by an exception: contextmanager throws it into
\* the generator at the yield, which has no try/finally, so nothing after the
\* yield runs.
section_abort(o) ==
    /\ o.op = "abort"
    /\ Allowed(o)
    /\ scopes # <<>>
    /\ scopes' = Front(scopes)
    /\ hist' = [hist EXCEPT !.calls = @ + 1]
    /\ Consume(o)
    /\ UNCHANGED <<lights, light_groups, effects, named_effects, current_section,
                   secs, lists, leaves>>

LightKinds == {"light_on", "light_off", "light_color"}

\* (mutant) an unknown name resolves to no targets instead of raising
_get_targets_lenient(name) ==
    IF lights[name] # None THEN Some(<<lights[name][1]>>)
    ELSE IF light_groups[name] # None THEN light_groups[name]
    ELSE Some(<<>>)

\* SpecialEffect._get_targets: None stands for the ValueError it raises.
_get_targets(name) ==
    LET targets == IF lights[name] # None THEN lights[name]
                   ELSE light_groups[name]
    IN IF targets = None THEN None
       ELSE IF lights[name] # None THEN Some(<<targets[1]>>)
       ELSE targets

\* The list _add_effect appends to (lines 196-199).
AddTarget == current_section

\* SpecialEffect._add_effect, called by add_light_on, add_light_off,
\* add_light_color, add_light_color_transition, add_sound, add_delay and
\* add_custom with the leaf Effect they construct.  None of them resolves the
\* target name: the closure they build does, when it runs.
_add_effect(o) ==
    /\ o.op = "add"
    /\ Allowed(o)
    /\ leaves' = Append(leaves, NewLeaf(o))
    /\ ListAppend(AddTarget, LeafRef(Len(leaves) + 1))
    /\ hist' = [hist EXCEPT !.calls = @ + 1,
                            !.order = Append(@, <<LeafRef(Len(leaves) + 1), Innermost>>),
                            !.late = IF o.kind \in LightKinds \cup {"light_color_transition"}
                                        /\ lights[o.target] = None
                                        /\ light_groups[o.target] = None
                                     THEN @ \cup {Len(leaves) + 1} ELSE @]
    /\ Consume(o)
    /\ UNCHANGED <<lights, light_groups, named_effects, current_section, secs, scopes>>

\* SpecialEffect.add_light
add_light(o) ==
    /\ o.op = "add_light"
    /\ Allowed(o)
    /\ lights' = [lights EXCEPT ![o.target] = Some(o.dev)]
    /\ hist' = [hist EXCEPT !.calls = @ + 1]
    /\ Consume(o)
    /\ UNCHANGED <<light_groups, effects, named_effects, current_section,
                   secs, lists, leaves, scopes>>

\* (mutant) the comprehension without its filter: a missing member yields an entry
GroupMembersUnfiltered(light_names) ==
    [i \in 1..Len(light_names) |->
        IF lights[light_names[i]] # None THEN lights[light_names[i]][1] ELSE "none"]
\* The comprehension of add_light_group: the registered members, in order.
RECURSIVE GroupMembers(_)
GroupMembers(light_names) ==
    IF light_names = <<>> THEN <<>>
    ELSE (IF lights[Head(light_names)] # None
          THEN <<lights[Head(light_names)][1]>> ELSE <<>>)
         \o GroupMembers(Tail(light_names))

\* SpecialEffect.add_light_group
add_light_group(o) ==
    /\ o.op = "add_light_group"
    /\ Allowed(o)
    /\ light_groups' = [light_groups EXCEPT ![o.target] = Some(GroupMembers(o.members))]
    /\ hist' = [hist EXCEPT !.calls = @ + 1,
                            !.snap[o.target] = Some([members |-> o.members, lights |-> lights])]
    /\ Consume(o)
    /\ UNCHANGED <<lights, effects, named_effects, current_section,
                   secs, lists, leaves, scopes>>

\* SpecialEffect.__init__
InitBuilder ==
    /\ lights = [n \in LightNames |-> None]
    /\ light_groups = [n \in LightNames |-> None]
    /\ effects = <<>>
    /\ named_effects = [n \in Names |-> 0]
    /\ current_section = 0
    /\ secs = <<>>
    /\ lists = <<>>
    /\ leaves = <<>>
    /\ scopes = <<>>
    \* calls: builder calls made; entered: for each Section, the innermost scope
    \* open when its scope was entered; order: the add_* calls and scope exits
    \* in the order they happened, each with the innermost scope open then;
    \* late: the light effects whose target no registry held when they were built;
    \* snap: for each group name, the arguments of the last add_light_group
    \* call for it and the device registry as it was at that call
    /\ hist = [calls |-> 0, entered |-> <<>>, order |-> <<>>, late |-> {},
               snap |-> [n \in LightNames |-> None]]


(* --------------------------- the event loop ---------------------------- *)
\* A coroutine frame.  node is the child reference the frame runs; the other
\* fields are the frame's locals: it (iterations done), idx (position in the
\* list being walked), task (the handle _run_effect made), cnt (how often each
\* child has been run to completion by this Section.run), targets, handles
\* (_play_async's tasks list), dev, elapsed and invoked (how often this run
\* has handed its callable to a worker) and easing_function.
Frame(fn, node, pc) ==
    [fn |-> fn, node |-> node, pc |-> pc, it |-> 0, idx |-> 1, task |-> 0,
     cnt |-> <<>>, targets |-> <<>>, handles |-> <<>>, dev |-> "", elapsed |-> 0,
     invoked |-> 0, easing_function |-> ""]

Kids(s) == lists[secs[s].effects]
SectionFrame(s) ==
    [Frame("Section.run", SecRef(s), "for") EXCEPT !.cnt = [i \in 1..Len(Kids(s)) |-> 0]]
LeafFrame(e) == Frame("Effect.run", LeafRef(e), "for")
\* effect.run() for a child reference: the method of the object's class.
RunFrame(ref) == IF IsSec(ref) THEN SectionFrame(ref[2]) ELSE LeafFrame(ref[2])
RunEffectFrame(ref) == Frame("_run_effect", ref, "if")
DeviceFrame(leaf, dev) == [Frame("set_color", LeafRef(leaf), "call") EXCEPT !.dev = dev]

\* A task wrapping the coroutine whose first frame is given; node is the child
\* the coroutine runs.
NewTask(kind, parent, frame) ==
    [kind |-> kind, node |-> frame.node, stack |-> <<frame>>, status |-> "ready",
     parent |-> parent, ret |-> None, exc |-> None, started |-> FALSE,
     resumed |-> FALSE]

Exc(type, arg) == [type |-> type, arg |-> arg]

\* The n lowest free task slots, in order.
Free == {u \in 1..MaxTasks : tasks[u].status = "free"}
RECURSIVE Pick(_, _)
Pick(S, n) ==
    IF n = 0 THEN <<>>
    ELSE LET m == CHOOSE x \in S : \A y \in S : x <= y
         IN <<m>> \o Pick(S \ {m}, n - 1)

\* The tasks a gather() made for the task p that awaits it.
GatherKids(p) == {u \in 1..MaxTasks : tasks[u].kind = "gather" /\ tasks[u].parent = p}

\* (mutant) gather() completes with its first child
GatherDoneFirst(p, t) == TRUE
\* Whether gather()'s future is complete once child t has ended normally
\* (its _done_callback counts the children that have finished).
GatherDone(p, t) == \A u \in GatherKids(p) \ {t} : tasks[u].status = "done"

\* The running task and its innermost frame.
Top == Last(tasks[running].stack)
Running(fn) ==
    /\ phase = "play"
    /\ running # 0
    /\ Top.fn = fn

SetTop(f) == [tasks EXCEPT ![running].stack = Front(@) \o <<f>>]
\* `await callee` on a coroutine: the caller's frame becomes f and the callee's
\* frame runs next, in the same task, without going through the event loop.
Await(f, callee) ==
    /\ tasks' = [tasks EXCEPT ![running].stack = Front(@) \o <<f, callee>>,
                              ![running].ret = None]
    /\ UNCHANGED <<ready, running>>
Goto(f) ==
    /\ tasks' = SetTop(f)
    /\ UNCHANGED <<ready, running>>
\* The running task awaits a future that is not done: it leaves the loop's
\* hands until the future completes.
Suspend(f, status) ==
    /\ tasks' = [SetTop(f) EXCEPT ![running].status = status]
    /\ running' = 0
    /\ ready' = ready

\* The coroutine of task t has ended, normally (e = None) or by raising e.
\* A gather child reports to the task awaiting the gather: the first exception
\* completes the gather at once and leaves the siblings running; otherwise the
\* gather completes when the last child does.  The end of any other task is
\* only recorded in the Task object.
Finish(t, e) ==
    LET k == tasks[t].kind
        p == tasks[t].parent
    IN /\ running' = 0
       /\ IF k = "gather" /\ p # 0
          THEN IF e # None
               THEN /\ tasks' = [u \in 1..MaxTasks |->
                                   IF u = t THEN NoTask
                                   ELSE IF u = p
                                   THEN [tasks[p] EXCEPT !.status = "ready", !.exc = e]
                                   ELSE IF u \in GatherKids(p)
                                   THEN IF tasks[u].status = "done" THEN NoTask
                                        ELSE [tasks[u] EXCEPT !.parent = 0]
                                   ELSE tasks[u]]
                    /\ ready' = Append(ready, p)
               ELSE IF GatherDone(p, t)
               THEN /\ tasks' = [tasks EXCEPT ![t].status = "done", ![t].stack = <<>>,
                                              ![p].status = "ready"]
                    /\ ready' = Append(ready, p)
               ELSE /\ tasks' = [tasks EXCEPT ![t].status = "done", ![t].stack = <<>>]
                    /\ ready' = ready
          ELSE IF k = "gather"
          THEN /\ tasks' = [tasks EXCEPT ![t] = NoTask]
               /\ ready' = ready
          ELSE LET joined == /\ tasks[1].status = "join"
                             /\ \A h \in Range(tasks[1].stack[1].handles) \ {t} :
                                    tasks[h].status \in {"done", "failed", "cancelled"}
               IN /\ tasks' = [tasks EXCEPT
                                  ![t].status = IF e = None THEN "done" ELSE "failed",
                                  ![t].stack = <<>>,
                                  ![t].exc = e,
                                  ![1].status = IF t # 1 /\ joined THEN "ready" ELSE @,
                                  ![1].exc = IF t # 1 /\ joined /\ e # None THEN e ELSE @]
                  /\ ready' = IF t # 1 /\ joined THEN Append(ready, 1) ELSE ready

\* `return v` in the running task's innermost frame.
Return(v) ==
    IF Len(tasks[running].stack) > 1
    THEN /\ tasks' = [tasks EXCEPT ![running].stack = Front(@), ![running].ret = v]
         /\ UNCHANGED <<ready, running>>
    ELSE Finish(running, None)

\* An exception raised in the running task: no frame of this program catches
\* anything, so it ends the task.
Raise(e) == Finish(running, Some(e))

\* The frees a resumed gather leaves behind: its children are garbage.
Reap(tt, p) == [u \in 1..MaxTasks |-> IF u \in GatherKids(p) THEN NoTask ELSE tt[u]]

\* SpecialEffect.play: asyncio.run(self._play_async()) makes the main task.
play ==
    /\ phase = "build"
    /\ script = <<>>
    /\ scopes = <<>>
    /\ phase' = "play"
    /\ tasks' = [tasks EXCEPT ![1] = NewTask("main", 0,
                                            Frame("_play_async", LeafRef(0), "for"))]
    /\ ready' = <<1>>
    /\ UNCHANGED <<lights, light_groups, effects, named_effects, current_section,
                   secs, lists, leaves, scopes, script, gen, hist, running, result, obs>>

\* The event loop runs the next ready handle.
Dispatch ==
    /\ phase = "play"
    /\ running = 0
    /\ ready # <<>>
    /\ LET t == Head(ready)
       IN /\ tasks' = [tasks EXCEPT ![t].status = "running",
                                    ![t].started = TRUE,
                                    ![t].resumed = tasks[t].started]
          /\ running' = t
          /\ ready' = Tail(ready)
    /\ UNCHANGED <<lights, light_groups, effects, named_effects, current_section,
                   secs, lists, leaves, scopes, script, gen, phase, hist, result, obs>>

\* A future a task awaits (device I/O, a timer, a worker thread) completes:
\* the loop queues the task's wakeup.  For a worker thread that is the moment
\* the callable has returned.
wake(t) ==
    /\ phase = "play"
    /\ running = 0
    /\ tasks[t].status = "wait"
    /\ tasks' = [tasks EXCEPT ![t].status = "ready"]
    /\ ready' = Append(ready, t)
    /\ obs' = [obs EXCEPT !.working = @ \ {t}]
    /\ UNCHANGED <<lights, light_groups, effects, named_effects, current_section,
                   secs, lists, leaves, scopes, script, gen, phase, hist, running, result>>

\* What Section.run returns when its loop ends (the method has no return
\* statement: the handles _run_effect returned are dropped).
SectionRunResult(f) == None

\* (mutant) play() runs a top-level entry the way a Section runs a child
PlayAwaitsLikeSection(ref) == RunEffectFrame(ref)
\* The coroutine _play_async awaits for a top-level entry: effect.run() itself
\* (line 188), not Section._run_effect.
PlayAwaits(ref) == RunFrame(ref)

\* SpecialEffect._play_async
_play_async ==
    /\ Running("_play_async")
    /\ LET f == Top
       IN CASE f.pc = "for" ->
                 IF f.idx <= Len(effects)
                 THEN Await([f EXCEPT !.pc = "await"], PlayAwaits(effects[f.idx]))
                 ELSE IF f.handles # <<>>
                 THEN IF \A h \in Range(f.handles) :
                             tasks[h].status \in {"done", "failed", "cancelled"}
                      THEN Return(None)
                      ELSE Suspend([f EXCEPT !.pc = "joined"], "join")
                 ELSE Return(None)
            [] f.pc = "await" ->
                 Goto([f EXCEPT !.pc = "for",
                                !.idx = @ + 1,
                                !.handles = IF tasks[running].ret # None
                                            THEN Append(@, tasks[running].ret[1])
                                            ELSE @])
            [] f.pc = "joined" ->
                 IF tasks[running].exc # None
                 THEN Raise(tasks[running].exc[1])
                 ELSE Return(None)
    /\ UNCHANGED <<lights, light_groups, effects, named_effects, current_section,
                   secs, lists, leaves, scopes, script, gen, phase, hist, result, obs>>

\* (mutant) CustomEffect.run loops over the repeat its caller supplied
RunCountFromKwargs(leaf) ==
    IF leaf.kind = "custom" /\ leaf.kwargs # None THEN leaf.kwargs ELSE leaf.repeat
\* How often a leaf's run() performs its action: LightEffect.run and
\* SoundEffect.run loop over self.repeat; CustomEffect.run has no loop.
RunCount(leaf) == IF leaf.kind = "custom" THEN Some(1) ELSE leaf.repeat

\* (mutant) the loop runs once more than repeat says
ExhaustedOffByOne(repeat, it) == repeat # None /\ it > repeat[1]
\* range(self.repeat) is exhausted after `it` iterations; itertools.count() never.
Exhausted(repeat, it) == repeat # None /\ it >= repeat[1]
\* The iteration counter, kept only where the loop is bounded.
NextIt(repeat, it) == IF repeat = None THEN it ELSE it + 1

\* Whether _run_effect launches the child as a background task (line 87).
IsBackground(ref) == IsSec(ref) /\ secs[ref[2]].repeat = None

\* Whether Section.run takes the gather branch (line 78).
RunsParallel(sec) == sec.parallel

\* Section.run
Section_run ==
    /\ Running("Section.run")
    /\ LET f == Top
           s == f.node[2]
           sec == secs[s]
           n == Len(Kids(s))
           slots == Pick(Free, n)
           bump == IF sec.repeat = None THEN f.cnt
                   ELSE [i \in 1..Len(f.cnt) |-> f.cnt[i] + 1]
       IN CASE f.pc = "for" ->
                 IF Exhausted(sec.repeat, f.it)
                 THEN Return(SectionRunResult(f))
                 ELSE IF ~RunsParallel(sec)
                 THEN Goto([f EXCEPT !.pc = "child", !.idx = 1])
                 ELSE IF n = 0
                 THEN Goto([f EXCEPT !.it = NextIt(sec.repeat, @)])
                 ELSE /\ Cardinality(Free) >= n
                      /\ tasks' = [u \in 1..MaxTasks |->
                                      IF u = running
                                      THEN [tasks[u] EXCEPT
                                               !.stack = Front(@) \o
                                                         <<[f EXCEPT !.pc = "await_gather"]>>,
                                               !.status = "gather"]
                                      ELSE IF \E j \in 1..n : slots[j] = u
                                      THEN NewTask("gather", running,
                                               RunEffectFrame(
                                                   Kids(s)[CHOOSE j \in 1..n : slots[j] = u]))
                                      ELSE tasks[u]]
                      /\ ready' = ready \o slots
                      /\ running' = 0
            [] f.pc = "child" ->
                 IF f.idx > n
                 THEN Goto([f EXCEPT !.pc = "for", !.it = NextIt(sec.repeat, @)])
                 ELSE Await([f EXCEPT !.pc = "await_child"],
                            RunEffectFrame(Kids(s)[f.idx]))
            [] f.pc = "await_child" ->
                 Goto([f EXCEPT !.pc = "child",
                                !.idx = @ + 1,
                                !.cnt = IF sec.repeat = None THEN @
                                        ELSE [@ EXCEPT ![f.idx] = @ + 1]])
            [] f.pc = "await_gather" ->
                 IF tasks[running].exc # None
                 THEN Raise(tasks[running].exc[1])
                 ELSE /\ tasks' = Reap(SetTop([f EXCEPT !.pc = "for",
                                                        !.it = NextIt(sec.repeat, @),
                                                        !.cnt = bump]), running)
                      /\ UNCHANGED <<ready, running>>
    /\ UNCHANGED <<lights, light_groups, effects, named_effects, current_section,
                   secs, lists, leaves, scopes, script, gen, phase, hist, result, obs>>

\* The ready queue after create_task(effect.run()) and `await asyncio.sleep(0)`
\* in task t: the new task was queued by create_task, then t by the bare yield.
AfterSpawnAndYield(q, new, t) == q \o <<new, t>>

\* Section._run_effect
_run_effect ==
    /\ Running("_run_effect")
    /\ LET f == Top
           new == CHOOSE x \in Free : \A y \in Free : x <= y
       IN CASE f.pc = "if" ->
                 IF IsBackground(f.node)
                 THEN /\ Free # {}
                      /\ tasks' = [SetTop([f EXCEPT !.pc = "slept", !.task = new])
                                      EXCEPT ![running].status = "ready",
                                             ![new] = NewTask("bg", 0,
                                                              SectionFrame(f.node[2]))]
                      /\ ready' = AfterSpawnAndYield(ready, new, running)
                      /\ running' = 0
                 ELSE Await([f EXCEPT !.pc = "await_run"], RunFrame(f.node))
            [] f.pc = "slept" -> Return(Some(f.task))
            [] f.pc = "await_run" -> Return(tasks[running].ret)
    /\ UNCHANGED <<lights, light_groups, effects, named_effects, current_section,
                   secs, lists, leaves, scopes, script, gen, phase, hist, result, obs>>

EasingNames ==
    {"linear", "quadratic_in", "quadratic_out", "quadratic_in_out", "cubic_in",
     "cubic_out", "cubic_in_out", "sine_in", "sine_out", "sine_in_out"}

(* --------------------------- easing.py --------------------------------- *)
\* Time is counted in hundredths of a time unit: asyncio.sleep(0.1) is 10.
SleepTicks == 10

\* int() of the quotient n / d (d > 0): truncation towards zero.
Trunc(n, d) == IF n >= 0 THEN n \div d ELSE -((-n) \div d)

\* The easing functions that are rational: the eased value of t = n / d, as
\* the fraction <<numerator, denominator>>.
RationalEasings == {"linear", "quadratic_in", "quadratic_out", "cubic_in"}
Ease(name, n, d) ==
    CASE name = "linear" -> <<n, d>>
      [] name = "quadratic_in" -> <<n * n, d * d>>
      [] name = "quadratic_out" -> <<d * d - (d - n) * (d - n), d * d>>
      [] name = "cubic_in" -> <<n * n * n, d * d * d>>

\* (mutant) the end hue is never moved past the wrap
WrapEndNever(start_h, end_h) == end_h
\* `if end_h < start_h: end_h += 360`
WrapEnd(start_h, end_h) == IF end_h < start_h THEN end_h + 360 ELSE end_h

\* interpolate_color(start_color, end_color, progress) for progress = n / d.
interpolate_color(start_color, end_color, n, d) ==
    LET end_h == WrapEnd(start_color[1], end_color[1])
        \* d times (start_h + (end_h - start_h) * progress) % 360
        h == (start_color[1] * d + (end_h - start_color[1]) * n) % (360 * d)
    IN <<Trunc(h, d),
         Trunc(start_color[2] * d + (end_color[2] - start_color[2]) * n, d),
         Trunc(start_color[3] * d + (end_color[3] - start_color[3]) * n, d)>>

\* (mutant) the loop stops only once progress is past 1
ProgressPastOne(elapsed, duration) == elapsed > duration
\* `progress >= 1` for progress = elapsed / duration, duration > 0.
ProgressDone(elapsed, duration) == elapsed >= duration

Hues == {0, 10, 180, 350, 359}

\* A call interpolate_color(start_color, end_color, num / Den) still to be
\* made (out = None), and a generator interpolate_color_over_time(start_color,
\* end_color, duration, easing) that has not been started.  now is the event
\* loop's clock; samples are the colors yielded, each with the time elapsed
\* when it was computed.
NewGenerator(start_h, end_h, num, duration, easing, now) ==
    [start_color |-> <<start_h, 100, 0>>, end_color |-> <<end_h, 0, 100>>,
     num |-> num, out |-> None,
     duration |-> duration, easing |-> easing, pc |-> "new",
     now |-> now, start_time |-> 0, samples |-> <<>>, stopped_at |-> None]
NoGenerator == NewGenerator(0, 0, 0, 0, "", 0)

\* The other names bound in the namespace globals() returns in easing.py:
\* none of them is a function of one number.
OtherGlobals == {"asyncio", "math", "interpolate_color", "interpolate_color_over_time"}
\* (mutant) an unknown easing name falls back to linear
EasingLookupOrLinear(name) == IF name \in EasingNames THEN Some(name) ELSE Some("linear")
\* globals()[easing_func]: None stands for the KeyError of a name not bound.
EasingLookup(name) == IF name \in EasingNames \cup OtherGlobals THEN Some(name) ELSE None

\* LightEffect.run, SoundEffect.run and CustomEffect.run with the closure or
\* call each wraps: the effect() closures of _create_light_effect,
\* add_light_color and add_light_color_transition, the sleep of add_delay, the
\* worker thread of CustomEffect.
Effect_run ==
    /\ Running("Effect.run")
    /\ LET f == Top
           e == f.node[2]
           leaf == leaves[e]
           n == Len(f.targets)
           slots == Pick(Free, n)
           found == _get_targets(leaf.target)
           done == [f EXCEPT !.pc = "for", !.it = @ + 1]
           Fails(x) == /\ Raise(x)
                       /\ obs' = [obs EXCEPT !.raised = @ \cup {<<e, x>>}]
       IN CASE f.pc = "for" ->
                 IF Exhausted(RunCount(leaf), f.it)
                 THEN /\ Return(None)
                      /\ obs' = [obs EXCEPT !.completed = @ \cup {e},
                                            !.custom = IF leaf.kind = "custom"
                                                       THEN @ \cup {<<e, f.invoked>>}
                                                       ELSE @]
                 ELSE IF leaf.kind \in LightKinds \cup {"light_color_transition"}
                 THEN IF found = None
                      THEN Fails(Exc("ValueError", leaf.target))
                      ELSE /\ Goto([f EXCEPT !.targets = found[1], !.idx = 1, !.elapsed = 0,
                                             !.pc = IF leaf.kind \in LightKinds
                                                    THEN "light" ELSE "generator"])
                           /\ obs' = obs
                 ELSE IF leaf.kind = "custom"
                 THEN \* asyncio.to_thread: the callable runs in a worker thread
                      /\ Suspend([f EXCEPT !.pc = "resumed", !.invoked = @ + 1], "wait")
                      /\ obs' = [obs EXCEPT !.working = @ \cup {running}]
                 ELSE Suspend([f EXCEPT !.pc = "resumed"], "wait") /\ obs' = obs
            [] f.pc = "resumed" ->
                 IF leaf.kind = "custom" /\ leaf.target = "raises"
                 THEN Fails(Exc("RuntimeError", leaf.target))
                 ELSE Goto(done) /\ obs' = obs
            [] f.pc = "light" ->
                 IF f.idx > n
                 THEN Goto(done) /\ obs' = obs
                 ELSE /\ Suspend([f EXCEPT !.pc = "light_resumed"], "wait")
                      /\ obs' = [obs EXCEPT !.calls = @ \cup {<<e, f.targets[f.idx]>>}]
            [] f.pc = "light_resumed" ->
                 IF f.targets[f.idx] = "broken"
                 THEN Fails(Exc("DeviceError", f.targets[f.idx]))
                 ELSE Goto([f EXCEPT !.pc = "light", !.idx = @ + 1]) /\ obs' = obs
            [] f.pc = "generator" ->
                 IF EasingLookup(leaf.easing) = None
                 THEN Fails(Exc("KeyError", leaf.easing))
                 ELSE /\ Goto([f EXCEPT !.pc = "sample",
                                        !.easing_function = EasingLookup(leaf.easing)[1]])
                      /\ obs' = obs
            [] f.pc = "sample" ->
                 IF leaf.duration = 0
                 THEN Fails(Exc("ZeroDivisionError", ""))
                 ELSE IF ProgressDone(f.elapsed, leaf.duration)
                 THEN Goto(done) /\ obs' = obs
                 ELSE IF f.easing_function \notin EasingNames
                 THEN \* easing_function(progress) on a module or on a function
                      \* of other parameters
                      Fails(Exc("TypeError", f.easing_function))
                 ELSE IF n = 0
                 THEN Suspend([f EXCEPT !.pc = "slept"], "wait") /\ obs' = obs
                 ELSE /\ Cardinality(Free) >= n
                      /\ tasks' = [u \in 1..MaxTasks |->
                                      IF u = running
                                      THEN [tasks[u] EXCEPT
                                               !.stack = Front(@) \o
                                                         <<[f EXCEPT !.pc = "await_gather"]>>,
                                               !.status = "gather"]
                                      ELSE IF \E j \in 1..n : slots[j] = u
                                      THEN NewTask("gather", running,
                                               DeviceFrame(e,
                                                   f.targets[CHOOSE j \in 1..n : slots[j] = u]))
                                      ELSE tasks[u]]
                      /\ ready' = ready \o slots
                      /\ running' = 0
                      /\ obs' = obs
            [] f.pc = "await_gather" ->
                 IF tasks[running].exc # None
                 THEN Fails(tasks[running].exc[1])
                 ELSE /\ tasks' = [Reap(SetTop([f EXCEPT !.pc = "slept"]), running)
                                      EXCEPT ![running].status = "wait"]
                      /\ running' = 0
                      /\ ready' = ready
                      /\ obs' = obs
            [] f.pc = "slept" ->
                 Goto([f EXCEPT !.pc = "sample", !.elapsed = @ + SleepTicks]) /\ obs' = obs
    /\ UNCHANGED <<lights, light_groups, effects, named_effects, current_section,
                   secs, lists, leaves, scopes, script, gen, phase, hist, result>>

\* light.set_color(*color), the coroutine gather() wraps in a task for each
\* target of a color transition.
set_color ==
    /\ Running("set_color")
    /\ LET f == Top
       IN CASE f.pc = "call" ->
                 /\ Suspend([f EXCEPT !.pc = "resumed"], "wait")
                 /\ obs' = [obs EXCEPT !.calls = @ \cup {<<f.node[2], f.dev>>}]
            [] f.pc = "resumed" ->
                 /\ IF f.dev = "broken"
                    THEN Raise(Exc("DeviceError", f.dev))
                    ELSE Return(None)
                 /\ obs' = obs
    /\ UNCHANGED <<lights, light_groups, effects, named_effects, current_section,
                   secs, lists, leaves, scopes, script, gen, phase, hist, result>>

\* asyncio.run returns once the main task has ended: it cancels every task
\* still pending and hands play() the main task's outcome.
asyncio_run ==
    /\ phase = "play"
    /\ running = 0
    /\ tasks[1].status \in {"done", "failed"}
    /\ tasks' = [u \in 1..MaxTasks |->
                    IF tasks[u].status \in {"ready", "wait", "gather", "join"}
                    THEN [tasks[u] EXCEPT !.status = "cancelled", !.stack = <<>>]
                    ELSE tasks[u]]
    /\ ready' = <<>>
    /\ result' = Some(tasks[1].exc)
    /\ phase' = "returned"
    /\ UNCHANGED <<lights, light_groups, effects, named_effects, current_section,
                   secs, lists, leaves, scopes, script, gen, hist, running, obs>>

(* ------------------------- the free builder ---------------------------- *)
FreeNames == {None} \cup {Some(n) : n \in Names}
FreeOps ==
    {Enter(n, p, Some(1)) : n \in FreeNames, p \in {None, Some(TRUE)}}
    \cup {Enter(None, None, None), Exit, Add("delay", "")}

InitBuild ==
    /\ InitBuilder
    /\ InitLoop
    /\ gen = NoGenerator
    /\ script = <<>>
    /\ phase = "free"

NextBuild ==
    \E o \in FreeOps : section_enter(o) \/ section_exit(o) \/ _add_effect(o)

vars == <<lights, light_groups, effects, named_effects, current_section,
          secs, lists, leaves, scopes, script, gen, phase, hist,
          tasks, ready, running, result, obs>>

SpecBuild == InitBuild /\ [][NextBuild]_vars

(* ------------------------ the color generator -------------------------- *)
\* interpolate_color is called.
Interpolate ==
    /\ phase = "color"
    /\ gen.out = None
    /\ gen' = [gen EXCEPT !.out = Some(interpolate_color(gen.start_color, gen.end_color,
                                                         gen.num, Den))]
    /\ UNCHANGED <<lights, light_groups, effects, named_effects, current_section,
                   secs, lists, leaves, scopes, script, phase, hist,
                   tasks, ready, running, result, obs>>

\* The consumer asks the generator for its next color: the generator runs to
\* its next yield, with the sleep that follows the previous yield when there
\* was one, or to its end.
interpolate_color_over_time ==
    /\ phase = "color"
    /\ gen.pc \in {"new", "loop", "yielded"}
    /\ LET elapsed == gen.now - gen.start_time
           eased == Ease(gen.easing, elapsed, gen.duration)
       IN CASE gen.pc = "new" ->
                 gen' = IF EasingLookup(gen.easing) = None
                        THEN [gen EXCEPT !.pc = "raised"]
                        ELSE [gen EXCEPT !.pc = "loop", !.start_time = gen.now]
            [] gen.pc = "loop" ->
                 gen' = IF ProgressDone(elapsed, gen.duration)
                        THEN [gen EXCEPT !.pc = "done", !.stopped_at = Some(elapsed)]
                        ELSE [gen EXCEPT
                                 !.pc = "yielded",
                                 !.samples = Append(@, <<elapsed,
                                     interpolate_color(gen.start_color, gen.end_color,
                                                       eased[1], eased[2])>>)]
            [] gen.pc = "yielded" ->
                 \* await asyncio.sleep(0.1)
                 gen' = [gen EXCEPT !.pc = "loop", !.now = @ + SleepTicks]
    /\ UNCHANGED <<lights, light_groups, effects, named_effects, current_section,
                   secs, lists, leaves, scopes, script, phase, hist,
                   tasks, ready, running, result, obs>>

InitColor ==
    /\ InitBuilder
    /\ InitLoop
    /\ script = <<>>
    /\ phase = "color"
    /\ gen \in {NewGenerator(a, b, k, d, e, t) :
                    a \in Hues, b \in Hues, k \in 0..Den, d \in 1..MaxDuration,
                    e \in RationalEasings, t \in {3}}

NextColor == Interpolate \/ interpolate_color_over_time

SpecColor == InitColor /\ [][NextColor]_vars

(* ------------------------ programs that play --------------------------- *)
\* Registrations every program of the family starts with: a working bulb, a
\* bulb whose operations fail, and a group whose only member name is not
\* registered (add_light_group skips it: the group is empty).
Prelude == <<AddLight("lamp", "bulb"), AddLight("bad", "broken"), AddGroup("grp", <<"ghost">>)>>

On == Add("light_on", "lamp")
Missing == Add("light_color", "ghost")
Idle == Add("light_off", "grp")
Bad == Add("light_on", "bad")
Delay == Add("delay", "")

Flags == {None, Some(TRUE)}
Bounded == {Some(1), Some(2)}
Repeats == Bounded \cup {None}
InnerBodies == {<<>>, <<On>>, <<Missing>>, <<Idle>>, <<On, Bad>>}

\* A Section nested in a Section, effects before, inside and after the inner
\* one, and effects after the outer one at top level.
Nested(p1, r1, a, p2, r2, b, c, d) ==
    Prelude \o <<Enter(None, p1, r1)>> \o a \o <<Enter(None, p2, r2)>> \o b
            \o <<Exit>> \o c \o <<Exit>> \o d

Programs ==
    \* a bounded Section holding a bounded or unbounded one
    {Nested(p1, r1, <<>>, p2, r2, b, c, d) :
        p1 \in Flags, r1 \in Bounded, p2 \in Flags, r2 \in Repeats,
        b \in InnerBodies, c \in {<<>>, <<On>>}, d \in {<<>>, <<On>>}}
    \cup
    \* an unbounded Section at top level
    {Nested(p1, None, <<>>, p2, r2, b, <<>>, <<On>>) :
        p1 \in Flags, p2 \in Flags, r2 \in Bounded, b \in {<<On>>, <<Missing>>}}
    \cup
    {Nested(None, None, a, None, None, <<>>, <<>>, <<On>>) : a \in {<<>>, <<On>>}}
    \cup
    { \* a named Section opened twice under the same parent
      Prelude \o <<Enter(Some("X"), None, Some(2)), On, Exit,
                   Enter(Some("X"), None, Some(2)), Delay, Exit>>,
      \* three children in parallel, twice
      Prelude \o <<Enter(None, Some(TRUE), Some(2)), On, Delay, Add("custom", "ok"), Exit>>,
      \* effects built before their targets are registered
      <<On, Add("light_off", "grp"), AddTransition("lamp", 20, "linear"),
        AddLight("lamp", "bulb"), AddLight("bad", "broken"),
        AddGroup("grp", <<"lamp", "ghost", "bad">>)>>,
      <<Add("light_color", "grp"), AddTransition("grp", 20, "linear"),
        AddLight("lamp", "bulb"), AddGroup("grp", <<"lamp", "lamp">>)>>,
      <<On, AddTransition("lamp", 10, "linear"), Missing, AddLight("lamp", "bulb")>>,
      \* a group made before one member is registered and another re-registered
      <<AddLight("lamp", "bulb"), AddGroup("grp", <<"lamp", "ghost">>),
        AddLight("ghost", "broken"), AddLight("lamp", "broken"), Add("light_on", "grp")>>,
      \* section(repeat=0)
      Prelude \o <<Enter(None, None, Some(0)), On, Exit, Delay>>,
      \* transitions with an easing name that is no easing function
      Prelude \o <<AddTransition("lamp", 10, "bogus"), Delay>>,
      Prelude \o <<Enter(None, Some(TRUE), Some(1)), AddTransition("lamp", 20, "math"),
                   AddTransition("lamp", 10, "sine_in"), Exit>>,
      \* an exception raised inside a scope and caught outside it
      Prelude \o <<Enter(None, None, Some(1)), On, Abort, On>>,
      Prelude \o <<Enter(None, None, Some(2)), Enter(None, Some(TRUE), Some(1)), Abort,
                   On, Exit, Delay>>,
      \* targets that are never registered
      <<On>>,
      <<Delay, AddTransition("ghost", 10, "linear"), Delay>>,
      Prelude \o <<Add("light_off", "ghost")>>,
      \* a callable given a repeat keyword, beside a sibling and a background task
      Prelude \o <<Enter(None, Some(TRUE), Some(2)), AddCustom("ok", Some(2)), On,
                   Enter(None, None, None), On, Exit, Exit>>,
      <<AddCustom("ok", Some(2)), Delay>>,
      \* a callable that raises
      Prelude \o <<Enter(None, None, Some(1)), Enter(None, None, None),
                   Add("custom", "raises"), Exit, Delay, Exit, Delay>>
    }

Init ==
    /\ InitBuilder
    /\ InitLoop
    /\ gen = NoGenerator
    /\ script \in Programs
    /\ phase = "build"

\* The program's next builder call.
Build ==
    /\ script # <<>>
    /\ LET o == Head(script)
       IN \/ section_enter(o)
          \/ section_exit(o)
          \/ _add_effect(o)
          \/ add_light(o)
          \/ add_light_group(o)
          \/ section_abort(o)

Next ==
    \/ Build
    \/ play
    \/ Dispatch
    \/ \E t \in 1..MaxTasks : wake(t)
    \/ _play_async
    \/ Section_run
    \/ _run_effect
    \/ Effect_run
    \/ set_color
    \/ asyncio_run

Spec == Init /\ [][Next]_vars

(* ----------------------- claims about the builder ---------------------- *)
\* Every place a child reference can sit: <<0, i>> in the top-level list,
\* <<l, i>> in list object l.
Places ==
    {<<0, i>> : i \in 1..Len(effects)}
    \cup UNION {{<<l, i>> : i \in 1..Len(lists[l])} : l \in 1..Len(lists)}
At(pl) == IF pl[1] = 0 THEN effects[pl[2]] ELSE lists[pl[1]][pl[2]]

\* The Sections reachable from Section s through child lists, in at most n steps.
RECURSIVE Below(_, _)
Below(S, n) ==
    IF n = 0 THEN S
    ELSE Below(S \cup {ref[2] : ref \in {r \in UNION {Range(lists[secs[s].effects]) : s \in S} :
                                         IsSec(r)}}, n - 1)
Children(s) == {ref[2] : ref \in {r \in Range(lists[secs[s].effects]) : IsSec(r)}}

\* The Sections created by section(name=n), and the effects added directly
\* inside the scope of Section s.
Named(n) == {s \in 1..Len(secs) : secs[s].name = Some(n)}
IsOpen(s) == \E i \in 1..Len(scopes) : scopes[i].new_section = s
AddsIn(s) == {i \in 1..Len(hist.order) : hist.order[i][2] = s /\ ~IsSec(hist.order[i][1])}

\* C5: once section(name=n) has been opened k >= 2 times under the same
\* parent, one effect added inside each scope, and every scope has exited,
\* the parent's child list holds exactly one Section for n, it is the
\* registered object, and it holds the k effects in the order they were added.
C5_OneSectionPerName ==
    \A n \in Names :
        LET Sn == Named(n) IN
        ( /\ Cardinality(Sn) >= 2
          /\ \A s \in Sn : ~IsOpen(s) /\ Cardinality(AddsIn(s)) = 1
          /\ \A s, t \in Sn : hist.entered[s] = hist.entered[t] )
        => LET p == hist.entered[CHOOSE s \in Sn : TRUE]
               at == {i \in 1..Len(ChildList(p)) :
                          IsSec(ChildList(p)[i]) /\ ChildList(p)[i][2] \in Sn}
               added == SelectSeq(hist.order,
                                  LAMBDA e : e[2] \in Sn /\ ~IsSec(e[1]))
           IN /\ Cardinality(at) = 1
              /\ \A i \in at : ChildList(p)[i][2] = named_effects[n]
              /\ lists[secs[named_effects[n]].effects]
                     = [i \in 1..Len(added) |-> added[i][1]]

\* C6: once every scope has exited, the effect structure is a tree: no
\* reference sits in two places, no list object is the child list of two
\* Sections, and no Section is reachable from itself.
C6_Tree ==
    scopes = <<>> =>
        /\ \A pl, pm \in Places : At(pl) = At(pm) => pl = pm
        /\ \A s, t \in 1..Len(secs) : secs[s].effects = secs[t].effects => s = t
        /\ \A s \in 1..Len(secs) : s \notin Below(Children(s), Len(secs))

\* What the calls made so far should have put, in order, into the child list
\* of target t (a list object, 0 for the top-level list): the effect of each
\* add_* call and the Section of each scope exit whose innermost enclosing
\* open scope held that list.
TargetList(s) == IF s = 0 THEN 0 ELSE secs[s].effects
Expected(t) ==
    LET sel == SelectSeq(hist.order, LAMBDA e : TargetList(e[2]) = t)
    IN [i \in 1..Len(sel) |-> sel[i][1]]

\* C9: add_* appends to the innermost open scope's Section (the top-level list
\* when none is open); a scope exit restores the target current at entry and
\* appends the exiting Section to it exactly once, at exit time, so every
\* child list is in source order.
C9_ScopedInsertion ==
    /\ current_section = Innermost
    /\ \A i \in 1..Len(scopes) :
           /\ scopes[i].previous_section
                  = (IF i = 1 THEN 0 ELSE scopes[i - 1].new_section)
           /\ \A pl \in Places : At(pl) # SecRef(scopes[i].new_section)
    /\ effects = Expected(0)
    /\ \A l \in 1..Len(lists) :
           /\ lists[l] = Expected(l)
           /\ \A i, j \in 1..Len(lists[l]) : lists[l][i] = lists[l][j] => i = j
    /\ \A i, j \in 1..Len(effects) : effects[i] = effects[j] => i = j

\* A scope was exited inside an open scope and an effect was then added: the
\* outer Section holds the inner Section followed by that effect.
C9_Witness ==
    /\ scopes # <<>>
    /\ \E l \in 1..Len(lists) : \E i \in 1..Len(lists[l]) :
           /\ i > 1
           /\ ~IsSec(lists[l][i])
           /\ IsSec(lists[l][i - 1])
           /\ secs[lists[l][i - 1][2]].effects # l
           /\ lists[secs[lists[l][i - 1][2]].effects] # <<>>
           /\ secs[Last(scopes).new_section].effects = l

(* ------------------------- claims about play() ------------------------- *)
Slots == 1..MaxTasks
Ended == {"done", "failed", "cancelled"}
Playing == phase \in {"play", "returned"}
\* Every frame of every task: <<task, depth>>.
Frames == UNION {{<<t, i>> : i \in 1..Len(tasks[t].stack)} : t \in Slots}
FrameAt(fr) == tasks[fr[1]].stack[fr[2]]
IsInnermost(fr) == fr[2] = Len(tasks[fr[1]].stack)
AllBounded(s) == \A j \in 1..Len(Kids(s)) : ~IsBackground(Kids(s)[j])
\* The leaf effects under a child reference.
LeavesUnder(ref) ==
    IF ~IsSec(ref) THEN {ref[2]}
    ELSE {r[2] : r \in {x \in UNION {Range(Kids(s)) : s \in Below({ref[2]}, Len(secs))} :
                        ~IsSec(x)}}
Touched(e) ==
    \/ e \in obs.completed
    \/ \E c \in obs.calls : c[1] = e
    \/ \E r \in obs.raised : r[1] = e

\* C1: play() does not complete while a background task spawned for an
\* unbounded nested Section is still running: once _play_async has ended,
\* every such task has ended.
C1_PlayWaitsForBackground ==
    \A u \in Slots :
        (tasks[u].kind = "bg" /\ tasks[u].status \notin Ended) => tasks[1].status # "done"

\* The parent has launched a background task for an unbounded child and has
\* not yet returned from _run_effect.
Launched(t) ==
    /\ tasks[t].stack # <<>>
    /\ Last(tasks[t].stack).fn = "_run_effect"
    /\ Last(tasks[t].stack).pc = "slept"
\* The running task's step needs more task slots than the model has.
OutOfSlots ==
    /\ running # 0
    /\ \/ Top.fn = "_run_effect" /\ Top.pc = "if" /\ IsBackground(Top.node) /\ Free = {}
       \/ /\ Top.fn = "Section.run" /\ Top.pc = "for"
          /\ Cardinality(Free) < Len(Kids(Top.node[2]))
       \/ /\ Top.fn = "Effect.run" /\ Top.pc = "sample"
          /\ Cardinality(Free) < Len(Top.targets)

\* An unbounded child Section is never awaited inline by a parent Section: it
\* runs as the coroutine of a background task, and when the parent goes on
\* after its one yield that task has taken its first step.
C2_LaunchedInBackground ==
    \A fr \in Frames :
        LET f == FrameAt(fr) IN
        /\ (f.fn = "_run_effect" /\ IsBackground(f.node)) =>
               /\ IsInnermost(fr)
               /\ f.pc = "slept" =>
                      /\ tasks[f.task].kind = "bg"
                      /\ tasks[f.task].node = f.node
                      /\ tasks[fr[1]].status = "running" => tasks[f.task].started
        /\ (f.fn = "Section.run" /\ IsBackground(f.node) /\ fr[2] > 1) =>
               tasks[fr[1]].stack[fr[2] - 1].fn = "_play_async"

\* C2: a Section that reaches an unbounded child Section launches it as a
\* background task, yields once, finds the task started when it goes on, and
\* does go on: its run() does not wait for the child.
C2_ParentGoesOn ==
    /\ []C2_LaunchedInBackground
    /\ \A t \in Slots : Launched(t) ~> (~Launched(t) \/ OutOfSlots)

\* C3: a sequential Section with finite repeat N and bounded children runs
\* them one at a time in list order, N rounds: while it runs, child j has
\* completed once per finished round plus once if the current round is past
\* it, the only frame it awaits is the current child's, and when its loop
\* ends every child has completed exactly N times.
C3_SequentialOrder ==
    \A fr \in Frames :
        LET f == FrameAt(fr)
            s == f.node[2]
            sec == secs[s]
            stack == tasks[fr[1]].stack
        IN (f.fn = "Section.run" /\ ~sec.parallel /\ sec.repeat # None /\ AllBounded(s)) =>
            /\ f.pc \in {"for", "child", "await_child"}
            /\ f.it <= sec.repeat[1]
            /\ \A j \in 1..Len(Kids(s)) :
                   f.cnt[j] = f.it + (IF f.pc # "for" /\ j < f.idx THEN 1 ELSE 0)
            /\ ~IsInnermost(fr) =>
                   /\ f.pc = "await_child"
                   /\ stack[fr[2] + 1].fn = "_run_effect"
                   /\ stack[fr[2] + 1].node = Kids(s)[f.idx]
            /\ GatherKids(fr[1]) # {} => ~IsInnermost(fr)
            /\ (f.pc = "for" /\ f.it = sec.repeat[1]) =>
                   \A j \in 1..Len(Kids(s)) : f.cnt[j] = sec.repeat[1]

\* A sequential Section with repeat 2 and two children has finished its loop.
C3_Witness ==
    \E fr \in Frames :
        LET f == FrameAt(fr)
            sec == secs[f.node[2]]
        IN /\ f.fn = "Section.run" /\ ~sec.parallel /\ sec.repeat = Some(2)
           /\ AllBounded(f.node[2])
           /\ Len(Kids(f.node[2])) >= 2
           /\ f.pc = "for" /\ f.it = 2
           /\ f.cnt = <<2, 2>>

\* C4: a parallel Section with bounded children makes one task per child in
\* each iteration; no child is resumed before every child has started; the
\* Section goes on only when every child of the iteration has completed; with
\* finite repeat N every child has completed once per finished iteration, N
\* times in all.
C4_ParallelGather ==
    \A fr \in Frames :
        LET f == FrameAt(fr)
            s == f.node[2]
            sec == secs[s]
            t == fr[1]
            kids == GatherKids(t)
        IN (f.fn = "Section.run" /\ sec.parallel /\ AllBounded(s)) =>
            /\ f.pc \in {"for", "await_gather"}
            /\ IsInnermost(fr)
            /\ sec.repeat # None =>
                   /\ f.it <= sec.repeat[1]
                   /\ \A j \in 1..Len(Kids(s)) : f.cnt[j] = f.it
            /\ f.pc = "for" => kids = {}
            /\ (f.pc = "await_gather" /\ tasks[t].status = "gather") =>
                   /\ Cardinality(kids) = Len(Kids(s))
                   /\ {tasks[u].node : u \in kids} = Range(Kids(s))
                   /\ \A u, v \in kids : tasks[u].resumed => tasks[v].started
            /\ (f.pc = "await_gather" /\ tasks[t].status \in {"ready", "running"}
                /\ tasks[t].exc = None) =>
                   /\ Cardinality(kids) = Len(Kids(s))
                   /\ \A u \in kids : tasks[u].status = "done"

\* A parallel Section with two children is resumed after its second iteration.
C4_Witness ==
    \E fr \in Frames :
        LET f == FrameAt(fr)
            sec == secs[f.node[2]]
        IN /\ f.fn = "Section.run" /\ sec.parallel /\ sec.repeat = Some(2)
           /\ AllBounded(f.node[2])
           /\ Len(Kids(f.node[2])) >= 2
           /\ f.pc = "await_gather" /\ f.it = 1
           /\ tasks[fr[1]].status = "running"
           /\ tasks[fr[1]].exc = None

\* C7: if a leaf effect executed during play() fails, play() ends with a
\* failure: it does not complete normally.
C7_FailureEndsPlay ==
    (phase = "returned" /\ obs.raised # {}) => result # Some(None)

\* The name is in one of the two registries, and the devices it stands for
\* (the device registry first).
Registered(name) == lights[name] # None \/ light_groups[name] # None
RegisteredDevices(name) ==
    IF lights[name] # None THEN {lights[name][1]} ELSE Range(light_groups[name][1])

\* C8: light effects are built whatever the registries hold and resolve their
\* target when they run: a name in neither registry makes the run raise the
\* not-found error naming it, with no device operation invoked; otherwise the
\* effect acts on the targets registered under the name when it runs, all of
\* them by the time it completes.
C8_ResolvedAtRun ==
    /\ Len(leaves) = Cardinality({i \in 1..Len(hist.order) : ~IsSec(hist.order[i][1])})
    /\ \A e \in 1..Len(leaves) : \E pl \in Places : At(pl) = LeafRef(e)
    /\ Playing =>
         \A e \in 1..Len(leaves) :
            LET leaf == leaves[e]
            IN leaf.kind \in LightKinds \cup {"light_color_transition"} =>
               IF ~Registered(leaf.target)
               THEN /\ e \notin obs.completed
                    /\ \A c \in obs.calls : c[1] # e
                    /\ \A r \in obs.raised :
                           r[1] = e => r[2] = Exc("ValueError", leaf.target)
               ELSE /\ \A c \in obs.calls : c[1] = e => c[2] \in RegisteredDevices(leaf.target)
                    /\ \A r \in obs.raised : r[1] = e => r[2].type # "ValueError"
                    /\ (e \in obs.completed /\ (leaf.kind \in LightKinds \/ leaf.duration > 0))
                           => \A d \in RegisteredDevices(leaf.target) : <<e, d>> \in obs.calls

\* An effect built before its target was registered has run on the device
\* registered since, and an effect whose target never was registered has
\* raised the error naming it, which is what play() ended with.
C8_Witness ==
    /\ \E e \in hist.late : e \in obs.completed /\ <<e, "bulb">> \in obs.calls
    /\ \E e \in hist.late :
           /\ <<e, Exc("ValueError", leaves[e].target)>> \in obs.raised
           /\ result = Some(Some(Exc("ValueError", leaves[e].target)))

\* C10: a top-level entry with unbounded repeat is awaited by play() in the
\* main task, never launched as a background task; entries run in list order;
\* once such an entry is reached nothing after it is started and play() does
\* not complete.
C10_TopLevelInline ==
    Playing =>
        /\ \A u \in Slots : tasks[u].kind = "bg" => tasks[u].node \notin Range(effects)
        /\ \A j \in 1..Len(effects) :
               IsBackground(effects[j]) =>
                   \A k \in (j + 1)..Len(effects) :
                       \A e \in LeavesUnder(effects[k]) \ LeavesUnder(effects[j]) : ~Touched(e)
        /\ tasks[1].stack # <<>> =>
               LET f == tasks[1].stack[1]
               IN /\ f.fn = "_play_async"
                  /\ \A j \in 1..Len(effects) : j < f.idx => ~IsBackground(effects[j])
                  /\ \A j \in 1..Len(effects) :
                         (j > f.idx \/ (j = f.idx /\ f.pc = "for")) =>
                             \A e \in LeavesUnder(effects[j]) :
                                 (\A i \in 1..Len(effects) :
                                      i <= f.idx /\ i # j => e \notin LeavesUnder(effects[i]))
                                 => ~Touched(e)
                  /\ (f.pc = "await" /\ Len(tasks[1].stack) >= 2) =>
                         /\ tasks[1].stack[2].node = effects[f.idx]
                         /\ tasks[1].stack[2].fn \in {"Section.run", "Effect.run"}
                  /\ (f.pc = "await" /\ Len(tasks[1].stack) = 1) =>
                         ~IsBackground(effects[f.idx])
        /\ tasks[1].status = "done" => \A j \in 1..Len(effects) : ~IsBackground(effects[j])

\* play() is inside an unbounded top-level Section that has already run an
\* effect to completion, with another top-level entry waiting behind it.
C10_Witness ==
    /\ phase = "play"
    /\ Len(tasks[1].stack) >= 2
    /\ tasks[1].stack[1].pc = "await"
    /\ tasks[1].stack[1].idx = 1
    /\ Len(effects) >= 2
    /\ IsBackground(effects[1])
    /\ \E e \in LeavesUnder(effects[1]) : e \in obs.completed

\* C11: CustomEffect.run invokes its callable exactly once per run whatever
\* repeat its caller supplied; the callable executes in a worker while its
\* task is parked, so the event loop is never inside it; and run() has not
\* completed while the callable is executing.
C11_CustomOnceInWorker ==
    /\ \A c \in obs.custom : c[2] = 1
    /\ \A fr \in Frames :
           LET f == FrameAt(fr) IN
           (f.fn = "Effect.run" /\ leaves[f.node[2]].kind = "custom") =>
               /\ f.invoked = (IF f.pc = "for" THEN f.it ELSE f.it + 1)
               /\ f.invoked <= 1
    /\ \A t \in obs.working :
           /\ running # t
           /\ tasks[t].status \in {"wait", "cancelled"}
           /\ tasks[t].status = "wait" =>
                  /\ Last(tasks[t].stack).fn = "Effect.run"
                  /\ Last(tasks[t].stack).pc = "resumed"
                  /\ leaves[Last(tasks[t].stack).node[2]].kind = "custom"

\* A callable given repeat=2 is executing in its worker while another task
\* takes a step, and a run of such a callable has completed.
C11_Witness ==
    /\ \E t \in obs.working :
           /\ tasks[t].status = "wait"
           /\ leaves[Last(tasks[t].stack).node[2]].kwargs = Some(2)
           /\ running # 0
    /\ \E c \in obs.custom : leaves[c[1]].kwargs = Some(2)

\* C12: a light group holds, in argument order, the devices that were
\* registered under its member names when add_light_group was called, names
\* not registered then being skipped; nothing registered since has changed it.
C12_GroupSnapshot ==
    \A n \in LightNames :
        IF hist.snap[n] = None THEN light_groups[n] = None
        ELSE LET at == hist.snap[n][1]
                 known == SelectSeq(at.members, LAMBDA ln : at.lights[ln] # None)
             IN light_groups[n] = Some([i \in 1..Len(known) |-> at.lights[known[i]][1]])

\* A group was made while one member was missing; that member was registered
\* and the other re-registered with another device afterwards, and an effect
\* on the group has run on the device of the snapshot alone.
C12_Witness ==
    /\ hist.snap["grp"] # None
    /\ hist.snap["grp"][1].lights["ghost"] = None
    /\ lights["ghost"] # None
    /\ hist.snap["grp"][1].lights["lamp"] = Some("bulb")
    /\ lights["lamp"] = Some("broken")
    /\ \E e \in obs.completed :
           /\ leaves[e].target = "grp"
           /\ {c[2] : c \in {x \in obs.calls : x[1] = e}} = {"bulb"}

\* C13: every Effect and Section that has been built has repeat None or an
\* integer >= 1.
C13_RepeatAtLeastOne ==
    /\ \A s \in 1..Len(secs) : secs[s].repeat # None => secs[s].repeat[1] >= 1
    /\ \A e \in 1..Len(leaves) : leaves[e].repeat # None => leaves[e].repeat[1] >= 1

\* C14: a color transition whose easing name is not an easing function fails
\* with an error: it never completes, its generator yields no sample, and no
\* set_color call is made for it.
C14_UnknownEasingFails ==
    \A e \in 1..Len(leaves) :
        (leaves[e].kind = "light_color_transition" /\ leaves[e].easing \notin EasingNames) =>
            /\ e \notin obs.completed
            /\ \A c \in obs.calls : c[1] # e
            /\ \A fr \in Frames :
                   FrameAt(fr).node = LeafRef(e) =>
                       /\ FrameAt(fr).fn # "set_color"
                       /\ FrameAt(fr).fn = "Effect.run" =>
                              /\ FrameAt(fr).pc \in {"for", "generator", "sample"}
                              /\ FrameAt(fr).it = 0
                              /\ FrameAt(fr).elapsed = 0

\* play() has ended with the KeyError of a transition named "bogus" whose
\* target is registered.
C14_Witness ==
    \E e \in 1..Len(leaves) :
        /\ leaves[e].kind = "light_color_transition"
        /\ leaves[e].easing = "bogus"
        /\ Registered(leaves[e].target)
        /\ <<e, Exc("KeyError", "bogus")>> \in obs.raised
        /\ result = Some(Some(Exc("KeyError", "bogus")))

\* C15: for integer hues in [0, 360) and progress in [0, 1], interpolate_color
\* returns an integer hue in [0, 360); when the end hue is below the start hue
\* the result is in [start, 360) or [0, end]; at progress 0 it is the start
\* hue and at progress 1 the end hue.
C15_HueWraps ==
    gen.out # None =>
        LET h == gen.out[1][1]
            start_h == gen.start_color[1]
            end_h == gen.end_color[1]
        IN /\ h \in 0..359
           /\ end_h < start_h => (h >= start_h \/ h <= end_h)
           /\ gen.num = 0 => h = start_h
           /\ gen.num = Den => h = end_h

\* interpolate_color from hue 350 to hue 10 at progress 1/2 has returned hue 0.
C15_Witness ==
    /\ gen.start_color[1] = 350
    /\ gen.end_color[1] = 10
    /\ 2 * gen.num = Den
    /\ gen.out # None
    /\ gen.out[1][1] = 0

\* ceil(duration / 0.1), the duration in hundredths.
SamplesDue(duration) == (duration + SleepTicks - 1) \div SleepTicks

\* C16: for a duration > 0 the generator's first sample is computed at raw
\* progress 0, every sample at raw progress < 1, each 0.1 after the one
\* before; it ends at the first step whose raw progress is >= 1, having
\* emitted ceil(duration / 0.1) samples.
C16_GeneratorFinite ==
    (phase = "color" /\ gen.duration > 0) =>
        /\ \A i \in 1..Len(gen.samples) :
               /\ gen.samples[i][1] = (i - 1) * SleepTicks
               /\ gen.samples[i][1] < gen.duration
        /\ Len(gen.samples) <= SamplesDue(gen.duration)
        /\ gen.pc = "done" =>
               /\ Len(gen.samples) = SamplesDue(gen.duration)
               /\ gen.stopped_at[1] >= gen.duration
               /\ gen.stopped_at[1] - SleepTicks < gen.duration
               /\ gen.stopped_at[1] = Len(gen.samples) * SleepTicks
        /\ gen.pc # "raised"

\* A generator of duration 0.25 has ended after its three samples, the first
\* being the start color.
C16_Witness ==
    /\ gen.pc = "done"
    /\ gen.duration = 25
    /\ Len(gen.samples) = 3
    /\ gen.samples[1][2][1] = gen.start_color[1]

\* A member of a fan-out whose gather() has already raised: Finish cut it
\* loose from the task that awaited the gather.
Orphaned(u) == tasks[u].kind = "gather" /\ tasks[u].parent = 0

\* C17: when a member of a fan-out fails, the fan-out call does not raise
\* before every other started member has finished: no member is still
\* executing once the call has ended.
C17_FanOutWaitsForAll ==
    \A u \in Slots : (Orphaned(u) /\ tasks[u].started) => tasks[u].status \in Ended

\* C18: at most one background task is running for an unbounded nested
\* Section at any time during play().
C18_OneBackgroundTaskPerSection ==
    \A u, v \in Slots :
        ( /\ tasks[u].kind = "bg" /\ tasks[u].status \notin Ended
          /\ tasks[v].kind = "bg" /\ tasks[v].status \notin Ended
          /\ tasks[u].node = tasks[v].node )
        => u = v

\* C19: launching an unbounded nested Section never stops the rest of the
\* run: every task that is ready (the parent after its yield among them)
\* eventually takes a step.
C19_ReadyTasksRun ==
    \A t \in Slots :
        (tasks[t].status = "ready") ~> (tasks[t].status # "ready" \/ OutOfSlots)

\* C20: after every scope exit, by an exception too, the insertion target is
\* the innermost scope still open (the top level when none is), and every
\* effect sits in the child list of the scope that was innermost when its
\* add_* call was made.
C20_TargetRestoredOnError ==
    /\ current_section = Innermost
    /\ \A i \in 1..Len(hist.order) :
           ~IsSec(hist.order[i][1]) =>
               hist.order[i][1] \in Range(ChildList(hist.order[i][2]))

\* The event loop keeps taking steps while it has any to take.
FairSpec == Spec /\ WF_vars(Next)

====
